---------------------------- MODULE Spec2Model ----------------------------
(***************************************************************************)
(* Ferreteria / Buloneria: the derived-computation chain of the sales      *)
(* module (miAplicacion).  The state is the content of the database        *)
(* tables Producto, Venta, DetalleVenta and MovimientoStock; every action  *)
(* is one HTTP request (a view of views.py or a change made through the    *)
(* admin site configured in admin.py).  Money is counted in whole units.   *)
(***************************************************************************)
EXTENDS Integers, Sequences, FiniteSets, TLC

VARIABLES db, ult, pasos, pc, cand, loc

vars == <<db, ult, pasos, pc, cand, loc>>

(***************************************************************************)
(* Bounds of the model.                                                    *)
(***************************************************************************)
MaxPasos == 3

Productos == {1, 2}
IdsPosteados == {1, 2, 3}
Precios == {1, 2}
LongitudesPost == 0..2
CantidadesPost == {<<"1">>, <<"0">>, <<"-", "1">>, <<"x">>}
CantidadesAdmin == {0, 2}
CantidadesMovimiento == {1}
CantidadesSinVenta == {2}
Peticiones == {1, 2}

None == 0

(***************************************************************************)
(* Python values: truthiness, int(), str().                                *)
(***************************************************************************)
Digitos == <<"0", "1", "2", "3", "4", "5", "6", "7", "8", "9">>

ValorDigito(c) == (CHOOSE i \in 1..10 : Digitos[i] = c) - 1

EsDigito(c) == \E i \in 1..10 : Digitos[i] = c

RECURSIVE ValorDecimal(_)
ValorDecimal(s) ==
    IF s = <<>> THEN 0
    ELSE 10 * ValorDecimal(SubSeq(s, 1, Len(s) - 1)) + ValorDigito(s[Len(s)])

\* int(texto): the text of a form field to an integer, or ValueError
SinSigno(s) == IF s # <<>> /\ s[1] = "-" THEN Tail(s) ELSE s

EsEntero(s) == SinSigno(s) # <<>> /\ \A i \in 1..Len(SinSigno(s)) : EsDigito(SinSigno(s)[i])

int(s) == IF s[1] = "-" THEN 0 - ValorDecimal(SinSigno(s)) ELSE ValorDecimal(s)

\* str(n) of a natural number, as a sequence of digit characters
RECURSIVE str(_)
str(n) == IF n < 10 THEN <<Digitos[n + 1]>> ELSE str(n \div 10) \o <<Digitos[(n % 10) + 1]>>

\* str with leading zeros up to the width w
RECURSIVE Relleno(_, _)
Relleno(s, w) == IF Len(s) >= w THEN s ELSE Relleno(<<"0">> \o s, w)

\* bool(x) of a number: 0 and None are false
Verdadero(x) == x # 0

(***************************************************************************)
(* random.randint(10**12, 10**13 - 1).  The numbers exceed the range of    *)
(* the integers the checker computes with, so a drawn number is kept as    *)
(* the pair <<alto, bajo>> that stands for alto * 10^6 + bajo.             *)
(***************************************************************************)
RandMin_doce_digitos == <<100000, 0>>

RandMin == <<1000000, 0>>

RandMax == <<9999999, 999999>>

Sorteos == {RandMin, RandMax}

strGrande(n) == str(n[1]) \o Relleno(str(n[2]), 6)

\* str(random.randint(...)) for the numbers drawn in the model
Numerales == {strGrande(n) : n \in Sorteos}

LongitudComprobante == 13

(***************************************************************************)
(* Rows and the database.                                                  *)
(***************************************************************************)
\* the products in the catalogue when the behaviour starts
Semillas == <<[precio |-> 1, cantidad_stock |-> 2], [precio |-> 2, cantidad_stock |-> 1]>>

VentaNueva == [numero_comprobante |-> <<>>, importe_total |-> 0, anulada |-> FALSE]

BaseInicial ==
    [productos |-> [p \in Productos |-> Semillas[p]],
     ventas |-> <<>>,
     detalles |-> <<>>,
     movimientos |-> <<>>,
     sigVenta |-> 1,
     sigDetalle |-> 1,
     sigMovimiento |-> 1]

Quitar(f, S) == [x \in DOMAIN f \ S |-> f[x]]

RECURSIVE Suma(_, _)
Suma(f, S) ==
    IF S = {} THEN 0
    ELSE LET x == CHOOSE y \in S : TRUE IN f[x] + Suma(f, S \ {x})

DetallesDe(d, v) == {l \in DOMAIN d.detalles : d.detalles[l].venta = v}

Resultado(d, e) == [db |-> d, err |-> e]

(***************************************************************************)
(* Producto: cantidad_stock is a PositiveIntegerField, whose column        *)
(* rejects a negative value when the row is written.                       *)
(***************************************************************************)
Producto_save_sin_check(d, pk, inst) ==
    Resultado([d EXCEPT !.productos[pk] = inst], "")

Producto_save(d, pk, inst) ==
    IF inst.cantidad_stock < 0
    THEN Resultado(d, "IntegrityError cantidad_stock")
    ELSE Resultado([d EXCEPT !.productos[pk] = inst], "")

(***************************************************************************)
(* MovimientoStock.save                                                    *)
(***************************************************************************)
MovimientoStock_save_sin_sumar(d, inst, producto) ==
    [r |-> Producto_save([d EXCEPT !.movimientos = @ @@ (d.sigMovimiento :> inst),
                                   !.sigMovimiento = @ + 1],
                         inst.producto, producto),
     producto |-> producto]

MovimientoStock_save(d, inst, producto) ==
    LET d1 == [d EXCEPT !.movimientos = @ @@ (d.sigMovimiento :> inst),
                        !.sigMovimiento = @ + 1]
        p1 == IF inst.tipo = "entrada"
              THEN [producto EXCEPT !.cantidad_stock = @ + inst.cantidad]
              ELSE producto
    IN  [r |-> Producto_save(d1, inst.producto, p1), producto |-> p1]

\* MovimientoStock.save of a movement that is stored already: the row is
\* updated and lines 153-155 run as on the first save
MovimientoStock_save_existente(d, pk, inst, producto) ==
    LET d1 == [d EXCEPT !.movimientos[pk] = inst]
        p1 == IF inst.tipo = "entrada"
              THEN [producto EXCEPT !.cantidad_stock = @ + inst.cantidad]
              ELSE producto
    IN  [r |-> Producto_save(d1, inst.producto, p1), producto |-> p1]

(***************************************************************************)
(* Venta                                                                   *)
(***************************************************************************)
Comprobante(venta) == <<"Venta ">> \o venta.numero_comprobante

NumeroEnUso(d, numero) == \E v \in DOMAIN d.ventas : d.ventas[v].numero_comprobante = numero

\* the values generar_numero_comprobante can return
generar_numero_comprobante(d) == {numero \in Numerales : ~NumeroEnUso(d, numero)}

\* super().save() of a Venta: INSERT (pk = None) or UPDATE of the named fields;
\* numero_comprobante is unique=True
Venta_guardar_todos_los_campos(d, pk, inst, campos) ==
    IF pk = None
    THEN IF NumeroEnUso(d, inst.numero_comprobante)
         THEN Resultado(d, "IntegrityError numero_comprobante")
         ELSE Resultado([d EXCEPT !.ventas = @ @@ (d.sigVenta :> inst),
                                  !.sigVenta = @ + 1], "")
    ELSE Resultado([d EXCEPT !.ventas[pk] = inst], "")

Venta_guardar(d, pk, inst, campos) ==
    IF pk = None
    THEN IF NumeroEnUso(d, inst.numero_comprobante)
         THEN Resultado(d, "IntegrityError numero_comprobante")
         ELSE Resultado([d EXCEPT !.ventas = @ @@ (d.sigVenta :> inst),
                                  !.sigVenta = @ + 1], "")
    ELSE IF campos = "importe_total"
         THEN Resultado([d EXCEPT !.ventas[pk].importe_total = inst.importe_total], "")
         ELSE Resultado([d EXCEPT !.ventas[pk] = inst], "")

\* Venta.save; sorteo is what generar_numero_comprobante returns when called
Venta_save(d, pk, inst, campos, sorteo) ==
    LET i1 == IF inst.numero_comprobante = <<>>
              THEN [inst EXCEPT !.numero_comprobante = sorteo]
              ELSE inst
    IN  [r |-> Venta_guardar(d, pk, i1, campos), venta |-> i1]

ImporteSumado(d, pk) ==
    Suma([l \in DetallesDe(d, pk) |-> d.detalles[l].importe], DetallesDe(d, pk))

calcular_importe_total_sin_guardar(d, pk, venta) ==
    [r |-> Resultado(d, ""), venta |-> [venta EXCEPT !.importe_total = ImporteSumado(d, pk)]]

calcular_importe_total(d, pk, venta) ==
    Venta_save(d, pk, [venta EXCEPT !.importe_total = ImporteSumado(d, pk)],
               "importe_total", <<>>)

(***************************************************************************)
(* signals.actualizar_stock_post_venta                                     *)
(***************************************************************************)
ExisteMovimiento_nunca(d, comprobante, producto_pk) == FALSE

ExisteMovimiento(d, comprobante, producto_pk) ==
    \E m \in DOMAIN d.movimientos :
        /\ d.movimientos[m].comprobante = comprobante
        /\ d.movimientos[m].producto = producto_pk

actualizar_stock_dentro_de_guarda(d, instance, created, venta, producto) ==
    IF created /\ instance.venta # None /\ ~venta.anulada
    THEN IF ~ExisteMovimiento(d, Comprobante(venta), instance.producto)
         THEN LET m == MovimientoStock_save(d,
                           [producto |-> instance.producto, tipo |-> "salida",
                            cantidad |-> instance.cantidad,
                            comprobante |-> Comprobante(venta)], producto)
              IN  IF m.r.err # "" THEN m.r
                  ELSE Producto_save(m.r.db, instance.producto,
                           [m.producto EXCEPT !.cantidad_stock = @ - instance.cantidad])
         ELSE Resultado(d, "")
    ELSE Resultado(d, "")

actualizar_stock_en_cada_guardado(d, instance, created, venta, producto) ==
    IF instance.venta # None
    THEN LET m == IF ~ExisteMovimiento(d, Comprobante(venta), instance.producto)
                  THEN MovimientoStock_save(d,
                           [producto |-> instance.producto, tipo |-> "salida",
                            cantidad |-> instance.cantidad,
                            comprobante |-> Comprobante(venta)], producto)
                  ELSE [r |-> Resultado(d, ""), producto |-> producto]
         IN  IF m.r.err # "" THEN m.r
             ELSE Producto_save(m.r.db, instance.producto,
                      [m.producto EXCEPT !.cantidad_stock = @ - instance.cantidad])
    ELSE Resultado(d, "")

actualizar_stock_post_venta(d, instance, created, venta, producto) ==
    IF created /\ instance.venta # None /\ ~venta.anulada
    THEN LET m == IF ~ExisteMovimiento(d, Comprobante(venta), instance.producto)
                  THEN MovimientoStock_save(d,
                           [producto |-> instance.producto, tipo |-> "salida",
                            cantidad |-> instance.cantidad,
                            comprobante |-> Comprobante(venta)], producto)
                  ELSE [r |-> Resultado(d, ""), producto |-> producto]
         IN  IF m.r.err # "" THEN m.r
             ELSE Producto_save(m.r.db, instance.producto,
                      [m.producto EXCEPT !.cantidad_stock = @ - instance.cantidad])
    ELSE Resultado(d, "")

(***************************************************************************)
(* DetalleVenta.save                                                       *)
(***************************************************************************)
precio_a_guardar_siempre(pk, inst, producto) ==
    IF inst.producto # None THEN producto.precio ELSE inst.precio_unitario

precio_a_guardar(pk, inst, producto) ==
    IF pk = None /\ inst.producto # None THEN producto.precio ELSE inst.precio_unitario

importe_a_guardar(inst, precio_unitario) ==
    IF Verdadero(inst.cantidad) /\ Verdadero(precio_unitario)
    THEN inst.cantidad * precio_unitario
    ELSE inst.importe

\* super().save() of a DetalleVenta: the row is written (cantidad is a
\* PositiveIntegerField) and post_save is sent before save returns
DetalleVenta_guardar(d, pk, inst, venta, producto) ==
    IF inst.cantidad < 0
    THEN Resultado(d, "IntegrityError cantidad")
    ELSE IF pk = None
         THEN actualizar_stock_post_venta(
                  [d EXCEPT !.detalles = @ @@ (d.sigDetalle :> inst), !.sigDetalle = @ + 1],
                  inst, TRUE, venta, producto)
         ELSE actualizar_stock_post_venta(
                  [d EXCEPT !.detalles[pk] = inst], inst, FALSE, venta, producto)

\* the whole of save(); venta and producto are the objects the line holds
DetalleVenta_save(d, pk, inst, venta, producto) ==
    LET i1 == [inst EXCEPT !.precio_unitario = precio_a_guardar(pk, inst, producto)]
        i2 == [i1 EXCEPT !.importe = importe_a_guardar(i1, i1.precio_unitario)]
        g == DetalleVenta_guardar(d, pk, i2, venta, producto)
    IN  IF g.err # "" THEN [r |-> g, venta |-> venta]
        ELSE IF i2.venta # None THEN calcular_importe_total(g.db, i2.venta, venta)
        ELSE [r |-> g, venta |-> venta]

(***************************************************************************)
(* Transactions.  transaction.atomic: an exception leaving the block rolls *)
(* back every write made inside it.                                        *)
(***************************************************************************)
sin_transaccion(d0, r) == r.db

transaction_atomic(d0, r) == IF r.err = "" THEN r.db ELSE d0

\* a change made through the admin site (VentaAdmin and its inline,
\* MovimientoStockAdmin) is one transaction
admin_atomic(d0, r) == IF r.err = "" THEN r.db ELSE d0

(***************************************************************************)
(* views.venta_agregar                                                     *)
(***************************************************************************)
Menor(a, b) == IF a <= b THEN a ELSE b

zip(xs, ys) == [i \in 1..Menor(Len(xs), Len(ys)) |-> <<xs[i], ys[i]>>]

\* the loop of lines 360-370; e.n counts the lines saved so far
RECURSIVE procesar_lineas(_, _, _)
procesar_lineas(e, pares, i) ==
    IF e.err # "" \/ i > Len(pares) THEN e
    ELSE LET producto_id == pares[i][1]
             cantidad == pares[i][2]
         IN  IF producto_id \notin DOMAIN e.db.productos
             THEN [e EXCEPT !.err = "Http404"]
             ELSE IF ~EsEntero(cantidad)
             THEN [e EXCEPT !.err = "ValueError"]
             ELSE LET producto == e.db.productos[producto_id]
                      s == DetalleVenta_save(e.db, None,
                               [venta |-> e.pk, producto |-> producto_id,
                                cantidad |-> int(cantidad),
                                precio_unitario |-> producto.precio,
                                importe |-> 0],
                               e.venta, producto)
                  IN  procesar_lineas(
                          [db |-> s.r.db, err |-> s.r.err, venta |-> s.venta, pk |-> e.pk,
                           n |-> IF s.r.err = "" THEN e.n + 1 ELSE e.n],
                          pares, i + 1)

venta_agregar(d, productos_ids, cantidades, sorteo) ==
    LET s == Venta_save(d, None, VentaNueva, "todos", sorteo)
    IN  procesar_lineas(
            [db |-> s.r.db, err |-> s.r.err, venta |-> s.venta, pk |-> d.sigVenta, n |-> 0],
            zip(productos_ids, cantidades), 1)

(***************************************************************************)
(* views.venta_anular (POST)                                               *)
(***************************************************************************)
stock_revertido_asignado(producto, detalle) ==
    [producto EXCEPT !.cantidad_stock = detalle.cantidad]

stock_revertido(producto, detalle) ==
    [producto EXCEPT !.cantidad_stock = @ + detalle.cantidad]

Minimo(S) == CHOOSE x \in S : \A y \in S : x <= y

\* the loop of lines 390-393 over the lines still to visit
RECURSIVE revertir_stock(_, _)
revertir_stock(r, pendientes) ==
    IF r.err # "" \/ pendientes = {} THEN r
    ELSE LET l == Minimo(pendientes)
             detalle == r.db.detalles[l]
         IN  IF detalle.producto = None
             THEN Resultado(r.db, "AttributeError")
             ELSE revertir_stock(
                      Producto_save(r.db, detalle.producto,
                          stock_revertido(r.db.productos[detalle.producto], detalle)),
                      pendientes \ {l})

venta_anular_sin_revertir(d, pk) ==
    (Venta_save(d, pk, [d.ventas[pk] EXCEPT !.anulada = TRUE], "todos", <<>>)).r

venta_anular_idempotente(d, pk) ==
    IF d.ventas[pk].anulada THEN Resultado(d, "")
    ELSE LET s == Venta_save(d, pk, [d.ventas[pk] EXCEPT !.anulada = TRUE], "todos", <<>>)
         IN  IF s.r.err # "" THEN s.r ELSE revertir_stock(s.r, DetallesDe(s.r.db, pk))

venta_anular_con_movimiento(d, pk) ==
    LET s == Venta_save(d, pk, [d.ventas[pk] EXCEPT !.anulada = TRUE], "todos", <<>>)
        r == IF s.r.err # "" THEN s.r ELSE revertir_stock(s.r, DetallesDe(s.r.db, pk))
    IN  Resultado([r.db EXCEPT !.movimientos =
                       @ @@ (r.db.sigMovimiento :>
                                [producto |-> None, tipo |-> "entrada", cantidad |-> 0,
                                 comprobante |-> Comprobante(d.ventas[pk])]),
                             !.sigMovimiento = @ + 1], r.err)

venta_anular(d, pk) ==
    LET s == Venta_save(d, pk, [d.ventas[pk] EXCEPT !.anulada = TRUE], "todos", <<>>)
    IN  IF s.r.err # "" THEN s.r ELSE revertir_stock(s.r, DetallesDe(s.r.db, pk))

(***************************************************************************)
(* Deleting rows: the foreign keys of DetalleVenta and MovimientoStock are *)
(* on_delete=CASCADE.                                                      *)
(***************************************************************************)
Producto_delete(d, pk) ==
    [d EXCEPT !.productos = Quitar(@, {pk}),
              !.detalles = Quitar(@, {l \in DOMAIN d.detalles : d.detalles[l].producto = pk}),
              !.movimientos = Quitar(@, {m \in DOMAIN d.movimientos :
                                             d.movimientos[m].producto = pk})]

DetalleVenta_delete(d, pk) == [d EXCEPT !.detalles = Quitar(@, {pk})]

(***************************************************************************)
(* The state and the requests.                                             *)
(***************************************************************************)
\* what the last request was and how it ended; stock is the on-hand quantity
\* of every product when a venta_agregar request arrived, kept while the
\* request after it voids the sale it created or saves one of its lines again
Ultima(op, res, venta, det, n, antes) ==
    [op |-> op, res |-> res, venta |-> venta, det |-> det, n |-> n, antes |-> antes,
     stock |-> IF op = "venta_agregar"
               THEN [p \in DOMAIN db.productos |-> db.productos[p].cantidad_stock]
               ELSE IF /\ op \in {"venta_anular", "admin_detalle_cambiar"}
                       /\ ult.op = "venta_agregar"
                       /\ ult.res = ""
                       /\ ult.venta = venta
               THEN ult.stock
               ELSE <<>>]

\* one more request is served
Paso == pasos < MaxPasos /\ pasos' = pasos + 1

\* The loop of venta_agregar stops at the first line that fails, so the lines
\* after it are never read: the forms posted are those whose lines before the
\* last name a product of the catalogue and a quantity int() accepts as >= 0.
\* get_object_or_404 comes before int(cantidad), so the quantity posted with a
\* product that is not in the catalogue is never read either.
Formularios(n) ==
    {f \in [1..n -> IdsPosteados \X CantidadesPost] :
        /\ \A i \in 1..(n - 1) :
               f[i][1] \in Productos /\ EsEntero(f[i][2]) /\ int(f[i][2]) >= 0
        /\ \A i \in 1..n : f[i][1] \notin Productos => f[i][2] = <<"1">>}

\* the objects a request holds in memory: the sale it created, the product it
\* read and the line it builds
LocVacio ==
    [venta_pk |-> None, venta |-> VentaNueva, producto_pk |-> None,
     producto |-> [precio |-> 0, cantidad_stock |-> 0], cantidad |-> 0, detalle |-> None,
     propia |-> FALSE, total |-> 0]

Init ==
    /\ db = BaseInicial
    /\ ult = Ultima("inicio", "", None, None, 0, FALSE)
    /\ pasos = 0
    /\ pc = [r \in Peticiones |-> "libre"]
    /\ cand = [r \in Peticiones |-> <<>>]
    /\ loc = [r \in Peticiones |-> LocVacio]

VentaAgregar ==
    /\ Paso
    /\ \E n \in LongitudesPost :
       \E f \in Formularios(n), sorteo \in generar_numero_comprobante(db) :
           LET productos_ids == [i \in 1..n |-> f[i][1]]
               cantidades == [i \in 1..n |-> f[i][2]]
               e == venta_agregar(db, productos_ids, cantidades, sorteo)
           IN  /\ db' = transaction_atomic(db, e)
               /\ ult' = Ultima("venta_agregar", e.err,
                                IF e.err = "" THEN e.pk ELSE None, None, e.n, FALSE)
    /\ UNCHANGED <<pc, cand, loc>>

VentaAnular ==
    /\ Paso
    /\ \E pk \in DOMAIN db.ventas :
           LET r == venta_anular(db, pk)
           IN  /\ db' = r.db
               /\ ult' = Ultima("venta_anular", r.err, pk, None, 0, db.ventas[pk].anulada)
    /\ UNCHANGED <<pc, cand, loc>>

ProductosUpdate_con_detalles ==
    /\ Paso
    /\ \E pk \in DOMAIN db.productos, precio \in Precios :
           LET r == Producto_save(db, pk, [db.productos[pk] EXCEPT !.precio = precio])
           IN  /\ db' = [r.db EXCEPT !.detalles =
                            [l \in DOMAIN @ |->
                                IF @[l].producto = pk
                                THEN [@[l] EXCEPT !.precio_unitario = precio]
                                ELSE @[l]]]
               /\ ult' = Ultima("productos_update", r.err, None, None, 0, FALSE)
    /\ UNCHANGED <<pc, cand, loc>>

ProductosUpdate ==
    /\ Paso
    /\ \E pk \in DOMAIN db.productos, precio \in Precios :
           LET r == Producto_save(db, pk, [db.productos[pk] EXCEPT !.precio = precio])
           IN  /\ db' = r.db
               /\ ult' = Ultima("productos_update", r.err, None, None, 0, FALSE)
    /\ UNCHANGED <<pc, cand, loc>>

ProductosConfirmDelete ==
    /\ Paso
    /\ \E pk \in DOMAIN db.productos :
           /\ db' = Producto_delete(db, pk)
           /\ ult' = Ultima("productos_confirm_delete", "", None, None, 0, FALSE)
    /\ UNCHANGED <<pc, cand, loc>>

\* the lines the inline of a sale shows
DetallesConVenta(d) == {l \in DOMAIN d.detalles : d.detalles[l].venta # None}

AdminDetalleAgregar ==
    /\ Paso
    /\ \E venta_pk \in DOMAIN db.ventas, producto_pk \in DOMAIN db.productos,
          cantidad \in CantidadesAdmin :
           LET s == DetalleVenta_save(db, None,
                        [venta |-> venta_pk, producto |-> producto_pk,
                         cantidad |-> cantidad, precio_unitario |-> 0, importe |-> 0],
                        db.ventas[venta_pk], db.productos[producto_pk])
           IN  /\ db' = admin_atomic(db, s.r)
               /\ ult' = Ultima("admin_detalle_agregar", s.r.err, venta_pk,
                                IF s.r.err = "" THEN db.sigDetalle ELSE None, 0,
                                db.ventas[venta_pk].anulada)
    /\ UNCHANGED <<pc, cand, loc>>

AdminDetalleCambiar ==
    /\ Paso
    /\ \E pk \in DetallesConVenta(db), producto_pk \in DOMAIN db.productos,
          cantidad \in CantidadesAdmin :
           LET inst == [db.detalles[pk] EXCEPT !.producto = producto_pk,
                                               !.cantidad = cantidad]
               s == DetalleVenta_save(db, pk, inst, db.ventas[inst.venta],
                                      db.productos[producto_pk])
           IN  /\ db' = admin_atomic(db, s.r)
               /\ ult' = Ultima("admin_detalle_cambiar", s.r.err, inst.venta, pk, 0,
                                db.ventas[inst.venta].anulada)
    /\ UNCHANGED <<pc, cand, loc>>

AdminDetalleBorrar ==
    /\ Paso
    /\ \E pk \in DetallesConVenta(db) :
           /\ db' = DetalleVenta_delete(db, pk)
           /\ ult' = Ultima("admin_detalle_borrar", "", db.detalles[pk].venta, pk, 0, FALSE)
    /\ UNCHANGED <<pc, cand, loc>>

AdminMovimientoAgregar ==
    /\ Paso
    /\ \E producto_pk \in DOMAIN db.productos, tipo \in {"entrada", "salida"},
          cantidad \in CantidadesMovimiento :
           LET m == MovimientoStock_save(db,
                        [producto |-> producto_pk, tipo |-> tipo, cantidad |-> cantidad,
                         comprobante |-> <<>>], db.productos[producto_pk])
           IN  /\ db' = admin_atomic(db, m.r)
               /\ ult' = Ultima("admin_movimiento_agregar", m.r.err, None, None, 0, FALSE)
    /\ UNCHANGED <<pc, cand, loc>>

\* DetalleVenta.objects.create without a sale: venta is null=True, default=None
DetalleCrearSinVenta ==
    /\ Paso
    /\ \E producto_pk \in DOMAIN db.productos, cantidad \in CantidadesSinVenta :
           LET s == DetalleVenta_save(db, None,
                        [venta |-> None, producto |-> producto_pk,
                         cantidad |-> cantidad, precio_unitario |-> 0, importe |-> 0],
                        None, db.productos[producto_pk])
           IN  /\ db' = s.r.db
               /\ ult' = Ultima("detalle_crear_sin_venta", s.r.err, None,
                                IF s.r.err = "" THEN db.sigDetalle ELSE None, 0, FALSE)
    /\ UNCHANGED <<pc, cand, loc>>

Next ==
    \/ VentaAgregar
    \/ VentaAnular
    \/ ProductosUpdate
    \/ ProductosConfirmDelete
    \/ AdminDetalleAgregar
    \/ AdminDetalleCambiar
    \/ AdminDetalleBorrar
    \/ AdminMovimientoAgregar

\* requests are served one at a time
Spec == Init /\ [][Next]_vars

\* a stored line saved through the model with its product emptied (the
\* foreign key is null=True); nothing is created, so the signal does nothing
DetalleQuitarProducto ==
    /\ Paso
    /\ \E pk \in DetallesConVenta(db) :
           LET inst == [db.detalles[pk] EXCEPT !.producto = None]
               s == DetalleVenta_save(db, pk, inst, db.ventas[inst.venta], None)
           IN  /\ inst.producto # db.detalles[pk].producto
               /\ db' = s.r.db
               /\ ult' = Ultima("detalle_quitar_producto", s.r.err, inst.venta, pk, 0,
                                db.ventas[inst.venta].anulada)
    /\ UNCHANGED <<pc, cand, loc>>

\* sales, lines that lose their product, and voids
NextSinProducto ==
    \/ VentaAgregar
    \/ DetalleQuitarProducto
    \/ VentaAnular

SpecSinProducto == Init /\ [][NextSinProducto]_vars

\* the change form of MovimientoStockAdmin saved with the values it shows
AdminMovimientoCambiar ==
    /\ Paso
    /\ \E pk \in DOMAIN db.movimientos :
           LET inst == db.movimientos[pk]
               m == MovimientoStock_save_existente(db, pk, inst, db.productos[inst.producto])
           IN  /\ db' = admin_atomic(db, m.r)
               /\ ult' = Ultima("admin_movimiento_cambiar", m.r.err, None, None, 0, FALSE)
    /\ UNCHANGED <<pc, cand, loc>>

\* stock movements created and saved again through the admin site
NextMovimientos ==
    \/ AdminMovimientoAgregar
    \/ AdminMovimientoCambiar

SpecMovimientos == Init /\ [][NextMovimientos]_vars

\* sale creations only, one after the other
NextVentas ==
    \/ VentaAgregar

SpecVentas == Init /\ [][NextVentas]_vars

\* the requests that save sale lines or void sales, and lines created
\* without a sale
NextSinVenta ==
    \/ VentaAgregar
    \/ VentaAnular
    \/ AdminDetalleAgregar
    \/ AdminDetalleCambiar
    \/ DetalleCrearSinVenta

SpecSinVenta == Init /\ [][NextSinVenta]_vars

(***************************************************************************)
(* Concurrent requests.  Each request r creates a sale: Venta.save first   *)
(* runs generar_numero_comprobante (the exists() query of line 335) and    *)
(* then super().save() (the INSERT of line 329); another request can be    *)
(* served between the two.                                                 *)
(***************************************************************************)
PeticionGenerar(r) ==
    /\ Paso
    /\ pc[r] = "libre"
    /\ \E numero \in generar_numero_comprobante(db) :
           cand' = [cand EXCEPT ![r] = numero]
    /\ pc' = [pc EXCEPT ![r] = "comprobado"]
    /\ UNCHANGED <<db, ult, loc>>

PeticionEscribir(r) ==
    /\ pc[r] = "comprobado"
    /\ LET s == Venta_guardar(db, None,
                    [VentaNueva EXCEPT !.numero_comprobante = cand[r]], "todos")
       IN  /\ db' = transaction_atomic(db, s)
           /\ ult' = Ultima("venta_agregar", s.err,
                            IF s.err = "" THEN db.sigVenta ELSE None, None, 0, FALSE)
           /\ pc' = [pc EXCEPT ![r] = IF s.err = "" THEN "hecho" ELSE "error"]
    /\ UNCHANGED <<cand, pasos, loc>>

PeticionTerminar(r) ==
    /\ pc[r] \in {"hecho", "error"}
    /\ pc' = [pc EXCEPT ![r] = "libre"]
    /\ cand' = [cand EXCEPT ![r] = <<>>]
    /\ UNCHANGED <<db, ult, pasos, loc>>

ProductosUpdateConcurrente ==
    /\ ProductosUpdate

NextConc ==
    \/ \E r \in Peticiones : PeticionGenerar(r)
    \/ \E r \in Peticiones : PeticionEscribir(r)
    \/ \E r \in Peticiones : PeticionTerminar(r)
    \/ ProductosUpdateConcurrente

SpecConc == Init /\ [][NextConc]_vars

(***************************************************************************)
(* Concurrent requests, statement by statement.  Each request r runs       *)
(* venta_agregar for one line: it saves the sale (views.py:353), reads the *)
(* product (line 361) and creates the line (lines 364-369), which is       *)
(* DetalleVenta.save: the price and the subtotal are set and the row is    *)
(* written (models.py:378-385), post_save runs actualizar_stock_post_venta *)
(* before super().save() returns, and then the total of the sale is        *)
(* recomputed (models.py:388-389).  The code takes no lock, so another     *)
(* request can run between any two of these statements.                    *)
(***************************************************************************)
CantidadesConcurrentes == {<<"1">>}

LineaVenta(r) ==
    /\ Paso
    /\ pc[r] = "libre"
    /\ \E sorteo \in generar_numero_comprobante(db) :
           LET s == Venta_save(db, None, VentaNueva, "todos", sorteo)
           IN  /\ s.r.err = ""
               /\ db' = s.r.db
               /\ loc' = [loc EXCEPT ![r] = [LocVacio EXCEPT !.venta_pk = db.sigVenta,
                                                              !.venta = s.venta,
                                                              !.propia = TRUE]]
    /\ pc' = [pc EXCEPT ![r] = "venta"]
    /\ UNCHANGED <<ult, cand>>

LineaLeer(r) ==
    /\ pc[r] = "venta"
    /\ \E producto_id \in DOMAIN db.productos, cantidad \in CantidadesConcurrentes :
           loc' = [loc EXCEPT ![r].producto_pk = producto_id,
                              ![r].producto = db.productos[producto_id],
                              ![r].cantidad = int(cantidad)]
    /\ pc' = [pc EXCEPT ![r] = "leido"]
    /\ UNCHANGED <<db, ult, pasos, cand>>

LineaPersistir_y_totalizar(r) ==
    /\ pc[r] = "leido"
    /\ LET inst == [venta |-> loc[r].venta_pk, producto |-> loc[r].producto_pk,
                    cantidad |-> loc[r].cantidad,
                    precio_unitario |-> loc[r].producto.precio, importe |-> 0]
           i1 == [inst EXCEPT !.precio_unitario = precio_a_guardar(None, inst, loc[r].producto)]
           i2 == [i1 EXCEPT !.importe = importe_a_guardar(i1, i1.precio_unitario)]
           d1 == [db EXCEPT !.detalles = @ @@ (db.sigDetalle :> i2), !.sigDetalle = @ + 1]
       IN  /\ db' = (calcular_importe_total(d1, loc[r].venta_pk, loc[r].venta)).r.db
           /\ loc' = [loc EXCEPT ![r].detalle = db.sigDetalle]
    /\ pc' = [pc EXCEPT ![r] = "persistido"]
    /\ UNCHANGED <<ult, pasos, cand>>

\* lines 378-385 up to the INSERT of the row
LineaPersistir(r) ==
    /\ pc[r] = "leido"
    /\ LET inst == [venta |-> loc[r].venta_pk, producto |-> loc[r].producto_pk,
                    cantidad |-> loc[r].cantidad,
                    precio_unitario |-> loc[r].producto.precio, importe |-> 0]
           i1 == [inst EXCEPT !.precio_unitario = precio_a_guardar(None, inst, loc[r].producto)]
           i2 == [i1 EXCEPT !.importe = importe_a_guardar(i1, i1.precio_unitario)]
       IN  /\ db' = [db EXCEPT !.detalles = @ @@ (db.sigDetalle :> i2), !.sigDetalle = @ + 1]
           /\ loc' = [loc EXCEPT ![r].detalle = db.sigDetalle]
    /\ pc' = [pc EXCEPT ![r] = "persistido"]
    /\ UNCHANGED <<ult, pasos, cand>>

producto_releido(d, l) == d.productos[l.producto_pk]

\* instance.producto in the signal: the object the view read and gave to the line
producto_del_detalle(d, l) == l.producto

\* the rollback of transaction.atomic: the rows the request wrote are removed
\* (the sale only if the request created it)
Deshacer(d, l) ==
    [d EXCEPT !.ventas = IF l.propia THEN Quitar(@, {l.venta_pk}) ELSE @,
              !.detalles = Quitar(@, {l.detalle})]

\* post_save: actualizar_stock_post_venta with the objects the request holds
LineaSenal(r) ==
    /\ pc[r] = "persistido"
    /\ LET g == actualizar_stock_post_venta(db, db.detalles[loc[r].detalle], TRUE,
                    loc[r].venta, producto_del_detalle(db, loc[r]))
       IN  IF g.err = ""
           THEN db' = g.db /\ pc' = [pc EXCEPT ![r] = "descontado"]
           ELSE db' = Deshacer(db, loc[r]) /\ pc' = [pc EXCEPT ![r] = "error"]
    /\ UNCHANGED <<ult, pasos, cand, loc>>

\* lines 388-389: self.venta.calcular_importe_total()
LineaTotal(r) ==
    /\ pc[r] = "descontado"
    /\ db' = (calcular_importe_total(db, loc[r].venta_pk, loc[r].venta)).r.db
    /\ pc' = [pc EXCEPT ![r] = "hecho"]
    /\ UNCHANGED <<ult, pasos, cand, loc>>

NextLinea ==
    \/ \E r \in Peticiones : LineaVenta(r)
    \/ \E r \in Peticiones : LineaLeer(r)
    \/ \E r \in Peticiones : LineaPersistir(r)
    \/ \E r \in Peticiones : LineaSenal(r)
    \/ \E r \in Peticiones : LineaTotal(r)

SpecLinea == Init /\ [][NextLinea]_vars

\* productos_update served while other requests create sale lines
NextPrecio ==
    \/ \E r \in Peticiones : LineaVenta(r)
    \/ \E r \in Peticiones : LineaLeer(r)
    \/ \E r \in Peticiones : LineaPersistir(r)
    \/ \E r \in Peticiones : LineaSenal(r)
    \/ \E r \in Peticiones : LineaTotal(r)
    \/ ProductosUpdate

SpecPrecio == Init /\ [][NextPrecio]_vars

(***************************************************************************)
(* Concurrent requests on one sale.  A request adds a line to a sale that  *)
(* exists (the inline of VentaAdmin), or calls calcular_importe_total on a *)
(* sale it holds; calcular_importe_total is two statements, the aggregate  *)
(* query of line 319 and the save of line 321, and other requests, a void  *)
(* of the sale among them, can run in between.                             *)
(***************************************************************************)
VentaSinLineas ==
    /\ Paso
    /\ \E sorteo \in generar_numero_comprobante(db) :
           LET e == venta_agregar(db, <<>>, <<>>, sorteo)
           IN  /\ db' = transaction_atomic(db, e)
               /\ ult' = Ultima("venta_agregar", e.err,
                                IF e.err = "" THEN e.pk ELSE None, None, e.n, FALSE)
    /\ UNCHANGED <<pc, cand, loc>>

\* the inline form is bound: the sale and the product are read
InlineLeer(r) ==
    /\ Paso
    /\ pc[r] = "libre"
    /\ \E v \in DOMAIN db.ventas, producto_id \in DOMAIN db.productos,
          cantidad \in CantidadesConcurrentes :
           loc' = [loc EXCEPT ![r] = [LocVacio EXCEPT !.venta_pk = v,
                                                      !.venta = db.ventas[v],
                                                      !.producto_pk = producto_id,
                                                      !.producto = db.productos[producto_id],
                                                      !.cantidad = int(cantidad)]]
    /\ pc' = [pc EXCEPT ![r] = "leido"]
    /\ UNCHANGED <<db, ult, cand>>

\* a caller that holds a sale is about to call calcular_importe_total on it
RecalcularLeer(r) ==
    /\ Paso
    /\ pc[r] = "libre"
    /\ \E v \in DOMAIN db.ventas :
           loc' = [loc EXCEPT ![r] = [LocVacio EXCEPT !.venta_pk = v, !.venta = db.ventas[v]]]
    /\ pc' = [pc EXCEPT ![r] = "recalcular"]
    /\ UNCHANGED <<db, ult, cand>>

\* line 319: the aggregate, or 0
LineaSumar(r) ==
    /\ pc[r] \in {"descontado", "recalcular"}
    /\ loc' = [loc EXCEPT ![r].total = ImporteSumado(db, loc[r].venta_pk)]
    /\ pc' = [pc EXCEPT ![r] = "sumado"]
    /\ UNCHANGED <<db, ult, pasos, cand>>

LineaEscribirTotal_con_suma_nueva(r) ==
    /\ pc[r] = "sumado"
    /\ db' = (calcular_importe_total(db, loc[r].venta_pk, loc[r].venta)).r.db
    /\ pc' = [pc EXCEPT ![r] = "hecho"]
    /\ UNCHANGED <<ult, pasos, cand, loc>>

\* lines 320-321: self.importe_total = total; self.save(update_fields=[...])
LineaEscribirTotal(r) ==
    /\ pc[r] = "sumado"
    /\ db' = (Venta_save(db, loc[r].venta_pk,
                         [loc[r].venta EXCEPT !.importe_total = loc[r].total],
                         "importe_total", <<>>)).r.db
    /\ pc' = [pc EXCEPT ![r] = "hecho"]
    /\ UNCHANGED <<ult, pasos, cand, loc>>

NextMismaVenta ==
    \/ VentaSinLineas
    \/ VentaAnular
    \/ \E r \in Peticiones : InlineLeer(r)
    \/ \E r \in Peticiones : RecalcularLeer(r)
    \/ \E r \in Peticiones : LineaPersistir(r)
    \/ \E r \in Peticiones : LineaSenal(r)
    \/ \E r \in Peticiones : LineaSumar(r)
    \/ \E r \in Peticiones : LineaEscribirTotal(r)

SpecMismaVenta == Init /\ [][NextMismaVenta]_vars

(***************************************************************************)
(* Venta.generar_numero_comprobante, draw by draw.  A request that saves a *)
(* sale without number enters the loop of lines 333-336: each iteration    *)
(* draws a number (line 334) and returns it if no sale has it (lines       *)
(* 335-336); otherwise the loop goes round again.                          *)
(***************************************************************************)
GenEmpezar(r) ==
    /\ Paso
    /\ pc[r] = "libre"
    /\ pc' = [pc EXCEPT ![r] = "sorteando"]
    /\ UNCHANGED <<db, ult, cand, loc>>

GenSortear_sin_comprobar(r, n) ==
    /\ pc[r] = "sorteando"
    /\ cand' = [cand EXCEPT ![r] = strGrande(n)]
    /\ pc' = [pc EXCEPT ![r] = "devuelto"]
    /\ UNCHANGED <<db, ult, pasos, loc>>

\* one iteration of the loop in which random.randint returns n
GenSortear(r, n) ==
    /\ pc[r] = "sorteando"
    /\ LET numero == strGrande(n)
       IN  /\ cand' = [cand EXCEPT ![r] = numero]
           /\ pc' = [pc EXCEPT ![r] = IF ~NumeroEnUso(db, numero)
                                      THEN "devuelto" ELSE "sorteando"]
    /\ UNCHANGED <<db, ult, pasos, loc>>

\* super().save() with the number returned
GenGuardar(r) ==
    /\ pc[r] = "devuelto"
    /\ LET s == Venta_guardar(db, None,
                    [VentaNueva EXCEPT !.numero_comprobante = cand[r]], "todos")
       IN  /\ db' = transaction_atomic(db, s)
           /\ ult' = Ultima("venta_agregar", s.err,
                            IF s.err = "" THEN db.sigVenta ELSE None, None, 0, FALSE)
    /\ pc' = [pc EXCEPT ![r] = "libre"]
    /\ cand' = [cand EXCEPT ![r] = <<>>]
    /\ UNCHANGED <<pasos, loc>>

NextGen ==
    \/ \E r \in Peticiones : GenEmpezar(r)
    \/ \E r \in Peticiones, n \in Sorteos : GenSortear(r, n)
    \/ \E r \in Peticiones : GenGuardar(r)

\* fair draws: a value random.randint can return is not left out for ever
SpecGen ==
    /\ Init
    /\ [][NextGen]_vars
    /\ \A r \in Peticiones : \A n \in Sorteos : WF_vars(GenSortear(r, n))

(***************************************************************************)
(* Properties.                                                             *)
(***************************************************************************)
Stock(d, p) == d.productos[p].cantidad_stock

SumaDeImportes(v) ==
    Suma([l \in DetallesDe(db, v) |-> db.detalles[l].importe], DetallesDe(db, v))

\* the quantities of the lines in L (lines of the database d) that name product p
CantidadDe(d, L, p) ==
    Suma([l \in L |-> d.detalles[l].cantidad], {l \in L : d.detalles[l].producto = p})

OperacionDeLinea == {"venta_agregar", "admin_detalle_agregar", "admin_detalle_cambiar"}

\* C1: a line saved for the first time takes the price its product has at that
\* moment, whatever unit price it was given, and no later request changes the
\* unit price of an existing line, price changes of the product included.
C1_PrecioCongelado ==
    [][\A l \in DOMAIN db'.detalles :
           IF l \in DOMAIN db.detalles
           THEN db'.detalles[l].precio_unitario = db.detalles[l].precio_unitario
           ELSE db'.detalles[l].producto # None =>
                    db'.detalles[l].precio_unitario =
                        db.productos[db'.detalles[l].producto].precio]_vars

\* a line was saved again after the price of its product had changed
C1_Testigo ==
    /\ ult.op = "admin_detalle_cambiar"
    /\ ult.res = ""
    /\ ult.det \in DOMAIN db.detalles
    /\ LET l == db.detalles[ult.det]
       IN  /\ l.precio_unitario # db.productos[l.producto].precio
           /\ l.precio_unitario = Semillas[l.producto].precio
           /\ l.cantidad = 2

\* C2: when the save of a line of a sale has returned, the stored total of the
\* sale is the sum of the subtotals of the lines stored for it.
C2_TotalTrasGuardar ==
    (/\ ult.op \in OperacionDeLinea
     /\ ult.res = ""
     /\ ult.venta \in DOMAIN db.ventas
     /\ DetallesDe(db, ult.venta) # {})
        => db.ventas[ult.venta].importe_total = SumaDeImportes(ult.venta)

\* an update of a line of a sale that has another line
C2_Testigo ==
    /\ ult.op = "admin_detalle_cambiar"
    /\ ult.res = ""
    /\ Cardinality(DetallesDe(db, ult.venta)) = 2
    /\ db.ventas[ult.venta].importe_total > 2

\* C3: in every state the stored total of each sale is the sum of the
\* subtotals of its lines, after lines were added, updated or removed.
C3_TotalSiempreIgualSuma ==
    \A v \in DOMAIN db.ventas : db.ventas[v].importe_total = SumaDeImportes(v)

\* C4: a request that creates lines takes from every product exactly the
\* quantities of the lines created for it on a sale that is not void, also
\* when a movement with the same receipt label and product exists already.
C4_DescuentoExacto ==
    [][\A p \in DOMAIN db.productos :
           LET nuevos == {l \in DOMAIN db'.detalles \ DOMAIN db.detalles :
                             /\ db'.detalles[l].venta # None
                             /\ ~db'.ventas[db'.detalles[l].venta].anulada}
           IN  DOMAIN db'.detalles \ DOMAIN db.detalles # {} =>
                   Stock(db', p) = Stock(db, p) - CantidadDe(db', nuevos, p)]_vars

\* two lines of one sale name the same product: one movement, both deducted
C4_Testigo ==
    /\ ult.op = "venta_agregar"
    /\ ult.res = ""
    /\ ult.n = 2
    /\ \E p \in DOMAIN db.productos :
           /\ \A l \in DetallesDe(db, ult.venta) :
                  db.detalles[l].producto = p /\ db.detalles[l].cantidad = 1
           /\ Cardinality({m \in DOMAIN db.movimientos :
                              /\ db.movimientos[m].producto = p
                              /\ db.movimientos[m].comprobante =
                                     Comprobante(db.ventas[ult.venta])}) = 1
           /\ Stock(db, p) = Semillas[p].cantidad_stock - 2

\* C5: voiding a sale that is not void sets its flag and gives back to every
\* product the sum of the quantities of the lines of the sale that name it.
C5_AnularDevuelve ==
    [][\A v \in DOMAIN db.ventas :
           (/\ pasos' # pasos
            /\ ult'.op = "venta_anular"
            /\ ult'.venta = v
            /\ ~db.ventas[v].anulada)
               => /\ db'.ventas[v].anulada
                  /\ \A p \in DOMAIN db.productos :
                         Stock(db', p) = Stock(db, p) + CantidadDe(db, DetallesDe(db, v), p)]_vars

\* a sale with two lines for one product was voided
C5_Testigo ==
    /\ ult.op = "venta_anular"
    /\ ult.res = ""
    /\ ~ult.antes
    /\ db.ventas[ult.venta].anulada
    /\ \E l1, l2 \in DetallesDe(db, ult.venta) :
           /\ l1 # l2
           /\ db.detalles[l1].producto = db.detalles[l2].producto
           /\ db.detalles[l1].cantidad > 0
           /\ db.detalles[l2].cantidad > 0

\* C6: the stock of a product is never negative.
C6_StockNoNegativo ==
    \A p \in DOMAIN db.productos : Stock(db, p) >= 0

\* a sale of more than the stock left was asked for, after a line of the same
\* request had been saved
C6_Testigo ==
    /\ ult.op = "venta_agregar"
    /\ ult.res = "IntegrityError cantidad_stock"
    /\ ult.n = 1

\* C7: every sale has a receipt number of 13 digits that does not start with
\* 0, and no two sales have the same receipt number.
C7_ComprobanteUnico ==
    /\ \A v \in DOMAIN db.ventas :
           LET numero == db.ventas[v].numero_comprobante
           IN  /\ Len(numero) = LongitudComprobante
               /\ \A i \in 1..Len(numero) : EsDigito(numero[i])
               /\ numero[1] # "0"
    /\ \A v, w \in DOMAIN db.ventas :
           v # w => db.ventas[v].numero_comprobante # db.ventas[w].numero_comprobante

C7_Testigo == Cardinality(DOMAIN db.ventas) = 2

\* C8: with concurrent sale creations no two sales have the same receipt
\* number, and the check and the write of a request are one atomic step: the
\* number a request has checked is still free when the request writes it.
C8_ComprobanteAtomico ==
    /\ \A v, w \in DOMAIN db.ventas :
           v # w => db.ventas[v].numero_comprobante # db.ventas[w].numero_comprobante
    /\ \A r \in Peticiones : pc[r] = "comprobado" => ~NumeroEnUso(db, cand[r])
    /\ \A r \in Peticiones : pc[r] # "error"

\* C9: a venta_agregar request that fails leaves the database as it was.
C9_TodoONada ==
    [][(pasos' # pasos /\ ult'.op = "venta_agregar" /\ ult'.res # "") => db' = db]_vars

\* the request failed on a product that does not exist after a line was saved
C9_Testigo ==
    /\ ult.op = "venta_agregar"
    /\ ult.res = "Http404"
    /\ ult.n = 1

\* C10: the sale-creation workflow stores no line whose quantity is not
\* positive.
C10_CantidadPositiva ==
    (ult.op = "venta_agregar" /\ ult.res = "")
        => \A l \in DetallesDe(db, ult.venta) : db.detalles[l].cantidad > 0

\* C11: when a sale created by one request is voided by the next request, every
\* product has again the on-hand quantity it had before the sale was created,
\* and the sale is void.
C11_IdaYVuelta ==
    [][(/\ pasos' # pasos
        /\ ult.op = "venta_agregar"
        /\ ult.res = ""
        /\ ult'.op = "venta_anular"
        /\ ult'.venta = ult.venta)
           => /\ db'.ventas[ult.venta].anulada
              /\ \A p \in DOMAIN ult.stock : Stock(db', p) = ult.stock[p]]_vars

\* a sale of one unit of each product was created and then voided
C11_Testigo ==
    /\ pasos = 2
    /\ ult.op = "venta_anular"
    /\ ult.res = ""
    /\ ~ult.antes
    /\ db.ventas[ult.venta].anulada
    /\ {db.detalles[l].producto : l \in DetallesDe(db, ult.venta)} = Productos
    /\ \A l \in DetallesDe(db, ult.venta) : db.detalles[l].cantidad = 1
    /\ \A p \in Productos : Stock(db, p) = Semillas[p].cantidad_stock

\* C12: saving a product with another price changes no sale line and no sale;
\* a line saved again afterwards keeps its unit price, its subtotal is the new
\* quantity times that unit price (a quantity of 0 leaves the subtotal as it
\* was), and the total of its sale is the sum of the subtotals.
C12_CambioDePrecio ==
    [][/\ (pasos' # pasos /\ ult'.op = "productos_update")
           => db'.detalles = db.detalles /\ db'.ventas = db.ventas
       /\ (pasos' # pasos /\ ult'.op = "admin_detalle_cambiar" /\ ult'.res = "")
           => LET antes == db.detalles[ult'.det]
                  ahora == db'.detalles[ult'.det]
              IN  /\ ahora.precio_unitario = antes.precio_unitario
                  /\ ahora.importe =
                         IF ahora.cantidad # 0 /\ antes.precio_unitario # 0
                         THEN ahora.cantidad * antes.precio_unitario
                         ELSE antes.importe
                  /\ db'.ventas[ahora.venta].importe_total =
                         Suma([l \in DetallesDe(db', ahora.venta) |-> db'.detalles[l].importe],
                              DetallesDe(db', ahora.venta))]_vars

\* the price of a product went from 1 to 2 after a line was sold at 1, and the
\* line, saved again for 2 units, has subtotal 2 and its sale total 2
C12_Testigo ==
    /\ pasos = 3
    /\ ult.op = "admin_detalle_cambiar"
    /\ ult.res = ""
    /\ ult.det \in DOMAIN db.detalles
    /\ LET l == db.detalles[ult.det]
       IN  /\ l.producto = 1
           /\ db.productos[1].precio = 2
           /\ l.precio_unitario = 1
           /\ l.cantidad = 2
           /\ l.importe = 2
           /\ DetallesDe(db, l.venta) = {ult.det}
           /\ db.ventas[l.venta].importe_total = 2

\* C13: a request that creates a stock movement stores the movement; an inbound
\* movement adds its quantity to the stock of its product, an outbound one
\* leaves the stock as it was, and no other product changes.
C13_MovimientoDeStock ==
    [][(pasos' # pasos /\ ult'.op = "admin_movimiento_agregar" /\ ult'.res = "")
           => /\ DOMAIN db'.movimientos = DOMAIN db.movimientos \cup {db.sigMovimiento}
              /\ db.sigMovimiento \notin DOMAIN db.movimientos
              /\ \A m \in DOMAIN db.movimientos : db'.movimientos[m] = db.movimientos[m]
              /\ LET nuevo == db'.movimientos[db.sigMovimiento]
                 IN  \A p \in DOMAIN db.productos :
                         Stock(db', p) =
                             IF p = nuevo.producto /\ nuevo.tipo = "entrada"
                             THEN Stock(db, p) + nuevo.cantidad
                             ELSE Stock(db, p)]_vars

\* an inbound and an outbound movement of one unit were created for a product
C13_Testigo ==
    /\ pasos = 2
    /\ ult.op = "admin_movimiento_agregar"
    /\ ult.res = ""
    /\ \E p \in Productos :
           /\ {db.movimientos[m].tipo : m \in {k \in DOMAIN db.movimientos :
                                                 db.movimientos[k].producto = p}}
                  = {"entrada", "salida"}
           /\ Stock(db, p) = Semillas[p].cantidad_stock + 1

\* C14: when the save of a sale line has returned, the subtotal stored for the
\* line is its quantity times its unit price, a quantity of 0 included.
C14_ImporteEsProducto ==
    (ult.op = "admin_detalle_cambiar" /\ ult.res = "" /\ ult.det \in DOMAIN db.detalles)
        => db.detalles[ult.det].importe =
               db.detalles[ult.det].cantidad * db.detalles[ult.det].precio_unitario

\* C15: voiding a sale that is void already adds the quantity of each of its
\* lines to the stock of its product again; when the two voids follow the
\* creation of the sale, every product ends with the quantity it had before
\* the sale plus the quantity sold.
C15_AnularDosVeces ==
    [][(pasos' # pasos /\ ult'.op = "venta_anular" /\ ult'.antes)
           => LET vendido(p) == CantidadDe(db, DetallesDe(db, ult'.venta), p)
              IN  /\ \A p \in DOMAIN db.productos :
                         Stock(db', p) = Stock(db, p) + vendido(p)
                  /\ (ult.op = "venta_anular" /\ ult.venta = ult'.venta)
                         => \A p \in DOMAIN ult.stock :
                                Stock(db', p) = ult.stock[p] + vendido(p)]_vars

\* a sale of one unit of product 1 was created and voided twice
C15_Testigo ==
    /\ pasos = 3
    /\ ult.op = "venta_anular"
    /\ ult.res = ""
    /\ ult.antes
    /\ \E l \in DetallesDe(db, ult.venta) :
           /\ DetallesDe(db, ult.venta) = {l}
           /\ db.detalles[l].producto = 1
           /\ db.detalles[l].cantidad = 1
    /\ Stock(db, 1) = Semillas[1].cantidad_stock + 1

\* C16: a request that saves an existing line again, that creates a line
\* without a sale, or that creates a line on a void sale leaves the stock of
\* every product and the stock movements as they were.
C16_SinEfectoEnStock ==
    [][(/\ pasos' # pasos
        /\ ult'.res = ""
        /\ \/ ult'.op = "admin_detalle_cambiar"
           \/ ult'.op = "detalle_crear_sin_venta"
           \/ ult'.op = "admin_detalle_agregar" /\ ult'.antes)
           => /\ DOMAIN db'.productos = DOMAIN db.productos
              /\ \A p \in DOMAIN db.productos : Stock(db', p) = Stock(db, p)
              /\ db'.movimientos = db.movimientos]_vars

\* two units of product 1 are on a line without a sale, and a line sold for
\* one unit of product 1 was saved again for two: one unit left the stock
C16_Testigo ==
    /\ pasos = 3
    /\ ult.op = "admin_detalle_cambiar"
    /\ ult.res = ""
    /\ db.detalles[ult.det].producto = 1
    /\ db.detalles[ult.det].cantidad = 2
    /\ db.detalles[ult.det].importe = 2
    /\ ~db.ventas[ult.venta].anulada
    /\ \E l \in DOMAIN db.detalles :
           /\ db.detalles[l].venta = None
           /\ db.detalles[l].producto = 1
           /\ db.detalles[l].cantidad = 2
    /\ Stock(db, 1) = Semillas[1].cantidad_stock - 1
    /\ \A m \in DOMAIN db.movimientos : db.movimientos[m].cantidad = 1
    /\ Cardinality(DOMAIN db.movimientos) = 1

\* the movements of the database d with the receipt label of sale v and product p
MovimientosDe(d, v, p) ==
    {m \in DOMAIN d.movimientos :
        /\ d.movimientos[m].comprobante = Comprobante(d.ventas[v])
        /\ d.movimientos[m].producto = p}

\* C17: after every request there is at most one stock movement with the
\* receipt label of a sale and a given product; a movement with a receipt
\* label that a request creates is outbound and has the quantity of the first
\* line the request created for that sale and product, and a request that
\* creates a line for a sale and product that have a movement creates none.
C17_UnMovimientoPorVentaYProducto ==
    [][LET nuevos == DOMAIN db'.detalles \ DOMAIN db.detalles
           deVentaYProducto(v, p) == {l \in nuevos : /\ db'.detalles[l].venta = v
                                                     /\ db'.detalles[l].producto = p}
       IN  /\ \A v \in DOMAIN db'.ventas, p \in DOMAIN db'.productos :
                  Cardinality(MovimientosDe(db', v, p)) <= 1
           /\ \A v \in DOMAIN db'.ventas, p \in DOMAIN db'.productos :
                  \A m \in MovimientosDe(db', v, p) \ DOMAIN db.movimientos :
                      /\ db'.movimientos[m].tipo = "salida"
                      /\ deVentaYProducto(v, p) # {}
                      /\ db'.movimientos[m].cantidad =
                             db'.detalles[Minimo(deVentaYProducto(v, p))].cantidad
           /\ \A v \in DOMAIN db.ventas, p \in DOMAIN db.productos :
                  (MovimientosDe(db, v, p) # {} /\ p \in DOMAIN db'.productos)
                      => MovimientosDe(db', v, p) = MovimientosDe(db, v, p)]_vars

\* a second line, of two units, was created for a sale and a product that had
\* a line of one unit: the only movement is the outbound one of one unit
C17_Testigo ==
    /\ ult.op = "admin_detalle_agregar"
    /\ ult.res = ""
    /\ ~ult.antes
    /\ \E p \in DOMAIN db.productos :
           /\ \A l \in DetallesDe(db, ult.venta) : db.detalles[l].producto = p
           /\ {db.detalles[l].cantidad : l \in DetallesDe(db, ult.venta)} = {1, 2}
           /\ db.detalles[ult.det].cantidad = 2
           /\ Cardinality(MovimientosDe(db, ult.venta, p)) = 1
           /\ \A m \in MovimientosDe(db, ult.venta, p) :
                  db.movimientos[m].tipo = "salida" /\ db.movimientos[m].cantidad = 1

\* the sum of the subtotals of the lines of sale v in the database d
SumaEn(d, v) == Suma([l \in DetallesDe(d, v) |-> d.detalles[l].importe], DetallesDe(d, v))

\* C18 as stated: once the stock effect of the creation of a line has run (the
\* outbound movement of its sale and product exists), the save of the line is
\* complete: the total of its sale has been recomputed with the line.
C18_StockDespuesDelTotal ==
    \A r \in Peticiones :
        (/\ loc[r].detalle \in DOMAIN db.detalles
         /\ loc[r].venta_pk \in DOMAIN db.ventas
         /\ MovimientosDe(db, loc[r].venta_pk, loc[r].producto_pk) # {})
            => db.ventas[loc[r].venta_pk].importe_total = SumaEn(db, loc[r].venta_pk)

\* C18 amended: the stock effect of the creation of a line runs when the line
\* is stored with its frozen price and its subtotal and before the total of
\* its sale is recomputed; the total is recomputed after the stock effect.
C18_StockAntesDelTotal ==
    [][\A r \in Peticiones :
           LET v == loc[r].venta_pk
               p == loc[r].producto_pk
           IN  /\ (pc[r] = "persistido" /\ pc'[r] = "descontado")
                      => /\ loc[r].detalle \in DOMAIN db.detalles
                         /\ db.detalles[loc[r].detalle].precio_unitario = loc[r].producto.precio
                         /\ db.detalles[loc[r].detalle].importe =
                                loc[r].cantidad * loc[r].producto.precio
                         /\ MovimientosDe(db, v, p) = {}
                         /\ MovimientosDe(db', v, p) # {}
                         /\ db.ventas[v].importe_total # SumaEn(db, v)
                         /\ db'.ventas[v].importe_total # SumaEn(db', v)
               /\ (pc[r] = "descontado" /\ pc'[r] = "hecho")
                      => /\ MovimientosDe(db, v, p) # {}
                         /\ db'.ventas[v].importe_total = SumaEn(db', v)]_vars

\* the stock effect of a line has run and the total of its sale is still 0
C18_Testigo ==
    \E r \in Peticiones :
        /\ pc[r] = "descontado"
        /\ MovimientosDe(db, loc[r].venta_pk, loc[r].producto_pk) # {}
        /\ Stock(db, loc[r].producto_pk) = loc[r].producto.cantidad_stock - 1
        /\ db.detalles[loc[r].detalle].importe > 0
        /\ db.ventas[loc[r].venta_pk].importe_total = 0

\* C20: the stock a line creation writes is the quantity its request read
\* when it fetched the product minus the quantity of the line, whatever other
\* requests have written since: of two concurrent creations for one product
\* that both read before either writes, one deduction is lost.
C20_EscribeLoLeido ==
    [][\A r \in Peticiones :
           (pc[r] = "persistido" /\ pc'[r] = "descontado")
               => Stock(db', loc[r].producto_pk) =
                      loc[r].producto.cantidad_stock - loc[r].cantidad]_vars

\* both requests have sold one unit of product 1 and its stock is one less
\* than at the start, not two
C20_Testigo ==
    /\ \A r \in Peticiones :
           /\ pc[r] = "hecho"
           /\ loc[r].producto_pk = 1
           /\ loc[r].detalle \in DOMAIN db.detalles
           /\ db.detalles[loc[r].detalle].cantidad = 1
    /\ Cardinality({loc[r].detalle : r \in Peticiones}) = 2
    /\ Stock(db, 1) = Semillas[1].cantidad_stock - 1

\* C19: an iteration of the generation returns its candidate only if no sale
\* has it and goes round again if a sale has it; while no number is free the
\* generation does not return; and with fair draws a generation that has
\* started returns, unless every number has come into use.
C19_GeneracionTermina ==
    /\ [][\A r \in Peticiones :
              /\ (pc[r] = "sorteando" /\ pc'[r] = "devuelto")
                     => ~NumeroEnUso(db, cand'[r])
              /\ (pc[r] = "sorteando" /\ pc'[r] = "sorteando" /\ cand'[r] # cand[r])
                     => NumeroEnUso(db, cand'[r])
              /\ (pc[r] = "sorteando" /\ generar_numero_comprobante(db) = {})
                     => pc'[r] = "sorteando"]_vars
    /\ \A r \in Peticiones :
           (pc[r] = "sorteando")
               ~> (pc[r] = "devuelto" \/ generar_numero_comprobante(db) = {})

\* a generation drew a number that a sale has, while another number is free
C19_Testigo ==
    \E r \in Peticiones :
        /\ pc[r] = "sorteando"
        /\ cand[r] # <<>>
        /\ NumeroEnUso(db, cand[r])
        /\ generar_numero_comprobante(db) # {}

\* C21: the total a request stores for a sale is the sum of the subtotals the
\* sale had when the request ran its aggregate query, whatever lines other
\* requests have stored since: two concurrent additions to one sale can end
\* with both lines stored and a total below the sum of their subtotals.
C21_TotalDeLoSumado ==
    [][\A r \in Peticiones :
           /\ (pc[r] \in {"descontado", "recalcular"} /\ pc'[r] = "sumado")
                  => loc'[r].total = SumaEn(db, loc[r].venta_pk)
           /\ (pc[r] = "sumado" /\ pc'[r] = "hecho")
                  => db'.ventas[loc[r].venta_pk].importe_total = loc[r].total]_vars

\* both requests have added their line to the same sale and have finished, and
\* the stored total is less than the sum of the two subtotals
C21_Testigo ==
    /\ \A r \in Peticiones :
           /\ pc[r] = "hecho"
           /\ loc[r].detalle \in DOMAIN db.detalles
           /\ db.detalles[loc[r].detalle].importe > 0
    /\ \E v \in DOMAIN db.ventas :
           /\ \A r \in Peticiones : loc[r].venta_pk = v
           /\ DetallesDe(db, v) = {loc[r].detalle : r \in Peticiones}
           /\ Cardinality(DetallesDe(db, v)) = 2
           /\ db.ventas[v].importe_total < SumaEn(db, v)

\* C23: the recomputation of the total takes the sum of the subtotals of the
\* lines of the sale, 0 when it has none, and its write changes the stored
\* total of that sale and nothing else: the stored void flag and receipt
\* number stay, also when the copy of the sale the request holds differs.
C23_SoloElTotal ==
    [][\A r \in Peticiones :
           LET v == loc[r].venta_pk
           IN  /\ (pc[r] \in {"descontado", "recalcular"} /\ pc'[r] = "sumado")
                      => /\ loc'[r].total = SumaEn(db, v)
                         /\ DetallesDe(db, v) = {} => loc'[r].total = 0
                         /\ db' = db
               /\ (pc[r] = "sumado" /\ pc'[r] = "hecho")
                      => db' = [db EXCEPT !.ventas[v].importe_total = loc[r].total]]_vars

\* a request read a sale that was not void, the sale was voided, and the
\* request has stored the total: the sale is still void
C23_Testigo ==
    \E r \in Peticiones :
        /\ pc[r] = "hecho"
        /\ ~loc[r].venta.anulada
        /\ db.ventas[loc[r].venta_pk].anulada
        /\ loc[r].total > 0
        /\ db.ventas[loc[r].venta_pk].importe_total = loc[r].total

\* C22: a request that voids a sale removes no sale and no line, leaves the
\* receipt number and the total of the sale, every other sale, every line, the
\* price of every product and the stock movements as they were, and sets the
\* void flag.
C22_AnularSoloCambiaLaMarcaYElStock ==
    [][(pasos' # pasos /\ ult'.op = "venta_anular")
           => /\ db'.ventas = [db.ventas EXCEPT ![ult'.venta].anulada = TRUE]
              /\ db'.detalles = db.detalles
              /\ db'.movimientos = db.movimientos
              /\ DOMAIN db'.productos = DOMAIN db.productos
              /\ \A p \in DOMAIN db.productos :
                     db'.productos[p].precio = db.productos[p].precio
              /\ db'.sigVenta = db.sigVenta
              /\ db'.sigDetalle = db.sigDetalle
              /\ db'.sigMovimiento = db.sigMovimiento]_vars

\* a sale with a line, a total and a stock movement was voided
C22_Testigo ==
    /\ ult.op = "venta_anular"
    /\ ult.res = ""
    /\ ~ult.antes
    /\ db.ventas[ult.venta].anulada
    /\ db.ventas[ult.venta].importe_total > 0
    /\ DetallesDe(db, ult.venta) # {}
    /\ \E p \in DOMAIN db.productos : MovimientosDe(db, ult.venta, p) # {}

\* C24: after sale creations only, the quantity by which the stock of each
\* product has gone down is the sum of the quantities of the outbound stock
\* movements recorded for the product.
C24_LibroDeStock ==
    \A p \in DOMAIN db.productos :
        LET salidas == {m \in DOMAIN db.movimientos :
                           /\ db.movimientos[m].producto = p
                           /\ db.movimientos[m].tipo = "salida"}
        IN  Semillas[p].cantidad_stock - Stock(db, p) =
                Suma([m \in salidas |-> db.movimientos[m].cantidad], salidas)

\* C25: what a void adds to each product is what the creation of the lines of
\* the sale took from it: when a sale is created, one of its lines is saved
\* again and the sale is voided, every product has the stock it had before
\* the sale.
C25_DevuelveLoDescontado ==
    [][(/\ pasos' # pasos
        /\ ult.op = "admin_detalle_cambiar"
        /\ ult.res = ""
        /\ ult'.op = "venta_anular"
        /\ ult'.venta = ult.venta)
           => \A p \in DOMAIN ult.stock : Stock(db', p) = ult.stock[p]]_vars

\* C26: every inbound stock movement counts once in the stock of its product,
\* however often it is saved: with movements only, the stock of a product is
\* its initial quantity plus the quantities of its inbound movements.
C26_EntradaCuentaUnaVez ==
    \A p \in DOMAIN db.productos :
        LET entradas == {m \in DOMAIN db.movimientos :
                            /\ db.movimientos[m].producto = p
                            /\ db.movimientos[m].tipo = "entrada"}
        IN  Stock(db, p) = Semillas[p].cantidad_stock
                               + Suma([m \in entradas |-> db.movimientos[m].cantidad], entradas)

\* C27: a void is all or nothing: a void that fails does not leave the sale
\* stored as void with the stock of some of its lines restored.
C27_AnularTodoONada ==
    [][(pasos' # pasos /\ ult'.op = "venta_anular" /\ ult'.res # "")
          => ~(/\ db'.ventas[ult'.venta].anulada
               /\ \E p \in DOMAIN db.productos : Stock(db', p) # Stock(db, p))]_vars

\* C28: the stock decrement of a new sale line writes back the on-hand quantity
\* only: it leaves the stored price of every product as it finds it, so a price
\* change made meanwhile by another request is kept.
C28_PrecioNoPisado ==
    [][(\E r \in Peticiones : pc[r] = "persistido" /\ pc'[r] = "descontado")
          => \A p \in DOMAIN db.productos :
                 db'.productos[p].precio = db.productos[p].precio]_vars

=============================================================================
